---- MODULE Spec2Model ----
(***************************************************************************)
(* Model of the SAM + AlphaCLIP evaluation glue of rogergheser/VFSS:       *)
(*   src/utils/utilsSAM.py  filter_masks, is_contained, post_processing,   *)
(*                          add_padding, blurred_masks, red_circle_masks,  *)
(*                          bbox_masks, black_background_masks             *)
(*   src/sam_pipeline.py    Evaluator.__init__, Evaluator.eval,            *)
(*                          Evaluator.add_labels                           *)
(*                                                                         *)
(* Python values are encoded as follows.                                   *)
(*   None / a value x      <<>> / <<x>>                                    *)
(*   list                  sequence                                        *)
(*   dict object (a mask)  a reference r into heap; heap[r] is the record  *)
(*                         of the dict's entries                           *)
(*   numpy/torch array     [shape |-> <<..>>, at |-> [index tuple -> value]]*)
(*                         with 0-based index tuples                       *)
(***************************************************************************)
EXTENDS Integers, Sequences, FiniteSets, TLC

VARIABLES
    pc,              \* position of the running call
    heap,            \* reference -> mask dict
    masks,           \* list of references: the caller's list of masks
    predictions,     \* filter_masks: None or the list of predictions
    masks_to_keep,   \* filter_masks: first returned list
    preds_to_keep,   \* filter_masks: second returned list
    image,           \* the image of the batch, or None
    original_masks,  \* eval: the deep copy taken before post_processing
    post_process,    \* the configured post-processing method
    images,          \* post_processing: the returned list of images
    masks_copy,      \* post_processing: the returned list of masks
    ade_voc,         \* Evaluator.ade_voc: dict from text to label
    new_label_idx,   \* Evaluator.new_label_idx
    text_predictions,\* the list of predicted texts, one for every mask
    semseg,          \* the label map add_labels returned, or None
    save_results,    \* Evaluator.save_results: None while the attribute is
                     \* missing, else its boolean
    evaluator,       \* whether Evaluator.evaluator is not None
    batch_index,     \* eval: the index i of the batch of the loader
    vocabulary,      \* eval: batch['vocabulary']
    logits,          \* eval: what clip.classify returned, or None
    saved,           \* eval: the indices i of the files {i}.png written
    process_call     \* eval: the arguments of this iteration's call of
                     \* evaluator.process, or None

vars == <<pc, heap, masks, predictions, masks_to_keep, preds_to_keep,
          image, original_masks, post_process, images, masks_copy,
          ade_voc, new_label_idx, text_predictions, semseg,
          save_results, evaluator, batch_index, vocabulary, logits, saved,
          process_call>>

filterVars == <<predictions, masks_to_keep, preds_to_keep>>

postVars == <<image, original_masks, post_process, images, masks_copy>>

labelVars == <<ade_voc, new_label_idx, text_predictions, semseg>>

evalVars == <<save_results, evaluator, batch_index, vocabulary, logits, saved,
              process_call>>

(* ------------------------------ bounds -------------------------------- *)

\* Most masks in an input list.
MaxMasks == 2
\* Largest value of each bbox component x, y, w, h.
MaxCoord == 1
\* Largest prediction (class index) in a predictions list.
MaxPred == 1
\* Height and width of the image of a post-processing run.
ImgH == 1
ImgW == 7
\* Most masks in the list of a post-processing run.
MaxPostMasks == 1
\* Height and width of the image of an add_labels run and of eval.
MapH == 1
MapW == 2
\* Number of batches of the loader of an eval run.
NumBatches == 2

(* --------------------------- Python values ---------------------------- *)

None == <<>>

Some(x) == <<x>>

\* The references 1..n in list order: a list of n distinct dict objects.
RefList(n) == [k \in 1..n |-> k]

\* A mask dict as filter_masks reads it: only 'bbox' is read.
BBoxes == (0..MaxCoord) \X (0..MaxCoord) \X (0..MaxCoord) \X (0..MaxCoord)

\* Bboxes along one row, for the runs that also vary the predictions.
RowBBoxes == {<<x, 0, w, 1>> : x \in 0..MaxCoord, w \in 0..MaxCoord}

BBoxDict(b) == [bbox |-> b]

(* ----------------------- utilsSAM.is_contained ------------------------- *)

is_contained(inner_bbox, outer_bbox) ==
    LET ix == inner_bbox[1]
        iy == inner_bbox[2]
        iw == inner_bbox[3]
        ih == inner_bbox[4]
        ox == outer_bbox[1]
        oy == outer_bbox[2]
        ow == outer_bbox[3]
        oh == outer_bbox[4]
    IN  /\ ix >= ox
        /\ iy >= oy
        /\ ix + iw <= ox + ow
        /\ iy + ih <= oy + oh

(* ----------------------- utilsSAM.filter_masks ------------------------- *)

\* Mutant of SmallerOrEqualArea: a strict comparison.
StrictlySmallerArea(mask, other_mask) ==
    mask.bbox[3] * mask.bbox[4] < other_mask.bbox[3] * other_mask.bbox[4]

\* Lines 328-330: the comparison of the two bbox areas.
SmallerOrEqualArea(mask, other_mask) ==
    LET area_mask == mask.bbox[3] * mask.bbox[4]
        area_other == other_mask.bbox[3] * other_mask.bbox[4]
    IN  area_mask <= area_other

\* Lines 324-332: the inner loop from index j on; the value of is_largest
\* when the loop ends or breaks.
RECURSIVE is_largest(_, _, _, _)
is_largest(h, ms, i, j) ==
    IF j > Len(ms) THEN TRUE
    ELSE IF /\ i # j
            /\ is_contained(h[ms[i]].bbox, h[ms[j]].bbox)
            /\ SmallerOrEqualArea(h[ms[i]], h[ms[j]])
         THEN FALSE
         ELSE is_largest(h, ms, i, j + 1)

\* Mutant of KeptPred: the prediction of the output position, not of the
\* input index.
KeptPredByOutputIndex(preds, i, kept) ==
    IF preds # None THEN Some(preds[1][Len(kept) + 1]) ELSE None

\* Line 335: the entry appended to preds_to_keep for input index i.
KeptPred(preds, i, kept) ==
    IF preds # None THEN Some(preds[1][i]) ELSE None

\* Lines 321-336: the outer loop from index i on, with the two lists built
\* so far; the returned pair.
RECURSIVE filter_loop(_, _, _, _, _, _)
filter_loop(h, ms, preds, i, keep, pkeep) ==
    IF i > Len(ms) THEN <<keep, pkeep>>
    ELSE IF is_largest(h, ms, i, 1)
         THEN filter_loop(h, ms, preds, i + 1,
                          Append(keep, ms[i]),
                          Append(pkeep, KeptPred(preds, i, keep)))
         ELSE filter_loop(h, ms, preds, i + 1, keep, pkeep)

filter_masks(h, ms, preds) == filter_loop(h, ms, preds, 1, <<>>, <<>>)

(* ------------------------------- arrays -------------------------------- *)

Min(a, b) == IF a < b THEN a ELSE b

Max(a, b) == IF a > b THEN a ELSE b

Idx2(shape) == (0..(shape[1] - 1)) \X (0..(shape[2] - 1))

Idx3(shape) ==
    (0..(shape[1] - 1)) \X (0..(shape[2] - 1)) \X (0..(shape[3] - 1))

\* arr[y:y+h, x:x+w] of a two-dimensional array: numpy clamps a slice to the
\* array (y, h, x, w are never negative here).
Slice2(arr, y, h, x, w) ==
    LET r0 == Min(y, arr.shape[1])
        r1 == Min(y + h, arr.shape[1])
        c0 == Min(x, arr.shape[2])
        c1 == Min(x + w, arr.shape[2])
        shape == <<r1 - r0, c1 - c0>>
    IN  [shape |-> shape,
         at |-> [p \in Idx2(shape) |-> arr.at[<<p[1] + r0, p[2] + c0>>]]]

\* img[y:y+h, x:x+w] of a (height, width, channels) array.
Slice3(img, y, h, x, w) ==
    LET r0 == Min(y, img.shape[1])
        r1 == Min(y + h, img.shape[1])
        c0 == Min(x, img.shape[2])
        c1 == Min(x + w, img.shape[2])
        shape == <<r1 - r0, c1 - c0, img.shape[3]>>
    IN  [img EXCEPT
           !.shape = shape,
           !.at = [p \in Idx3(shape) |->
                     img.at[<<p[1] + r0, p[2] + c0, p[3]>>]]]

\* binary_mask.astype(np.uint8) of a boolean array.
AsUint8(segmentation) ==
    [shape |-> segmentation.shape,
     at |-> [p \in DOMAIN segmentation.at |->
               IF segmentation.at[p] THEN 1 ELSE 0]]

(* ------------------------ utilsSAM.add_padding ------------------------- *)

\* int(padding_p * max(w, h)) for padding_p = 0.15, in integers.
PaddingOf(w, h) == (15 * Max(w, h)) \div 100

add_padding(bbox, image_shape) ==
    LET x == bbox[1]
        y == bbox[2]
        w == bbox[3]
        h == bbox[4]
        im_height == image_shape[1]
        im_width == image_shape[2]
        padding == PaddingOf(w, h)
        y1 == Max(0, y - padding)
        x1 == Max(0, x - padding)
        new_height == IF h + 2 * padding > im_height
                      THEN im_height - y1 ELSE h + 2 * padding
        new_width == IF w + 2 * padding > im_width
                     THEN im_width - x1 ELSE w + 2 * padding
    IN  IF new_height = new_width
        THEN <<x1, y1, new_height, new_width>>
        ELSE IF new_height > new_width
             THEN <<Max(0, x1 - ((new_height - new_width) \div 2)), y1,
                    new_height, new_height>>
             ELSE <<x1, Max(0, y1 - ((new_width - new_height) \div 2)),
                    new_width, new_width>>

(* ----------------------- utilsSAM.blurred_masks ------------------------ *)

\* Mutant of InvertedMask: the mask is not inverted.
NotInvertedMask(binary_mask) == binary_mask

\* Line 132: inverted_mask = 1 - binary_mask, in uint8.
InvertedMask(binary_mask) ==
    [binary_mask EXCEPT
       !.at = [p \in DOMAIN binary_mask.at |-> (1 - binary_mask.at[p]) % 256]]

\* Lines 136-141: the image where the mask is 1, the blurred image where
\* it is 0, channel by channel.
CombinedImage(img, blurred_image, segmentation) ==
    LET binary_mask == AsUint8(segmentation)
        inverted_mask == InvertedMask(binary_mask)
    IN  [img EXCEPT
           !.at = [p \in DOMAIN img.at |->
                     img.at[p] * binary_mask.at[<<p[1], p[2]>>]
                       + blurred_image.at[p] * inverted_mask.at[<<p[1], p[2]>>]]]

\* blurred_image is what cv2.GaussianBlur(image, (15, 15), 0) returned.
blurred_masks(h, ms, img, blurred_image) ==
    [i \in 1..Len(ms) |->
        CombinedImage(img, blurred_image, h[ms[i]].segmentation)]

(* ------------------- utilsSAM.black_background_masks ------------------- *)

black_background_masks(h, ms, img) ==
    [i \in 1..Len(ms) |->
        LET binary_mask == AsUint8(h[ms[i]].segmentation)
        IN  [img EXCEPT
               !.at = [p \in DOMAIN img.at |->
                         img.at[p] * binary_mask.at[<<p[1], p[2]>>]]]]

(* ---------------------- utilsSAM.red_circle_masks ---------------------- *)

\* The colour (0, 0, 255) that cv2.ellipse writes, per channel, as a value
\* of an array whose entries are in units of 1/scale.
EllipseColour(img, channel) == IF channel = 2 THEN 255 * img.scale ELSE 0

\* rasters[i] is the set of (row, column) places that cv2.ellipse coloured
\* on the copy of the image for mask i.
red_circle_masks(h, ms, img, rasters) ==
    [i \in 1..Len(ms) |->
        [img EXCEPT
           !.at = [p \in DOMAIN img.at |->
                     IF <<p[1], p[2]>> \in rasters[i]
                     THEN EllipseColour(img, p[3]) ELSE img.at[p]]]]

(* ------------------------- utilsSAM.bbox_masks ------------------------- *)

\* Lines 183-192 from index i on: the images built so far and the heap
\* after the writes to masks[i]; returns <<images, heap>>.
RECURSIVE bbox_loop(_, _, _, _, _)
bbox_loop(h, ms, img, i, imgs) ==
    IF i > Len(ms) THEN <<imgs, h>>
    ELSE LET p == add_padding(h[ms[i]].bbox, img.shape)
             x == p[1]
             y == p[2]
             hh == p[3]
             w == p[4]
             processed_image == Slice3(img, y, hh, x, w)
             h2 == [h EXCEPT
                      ![ms[i]].segmentation =
                          Slice2(h[ms[i]].segmentation, y, hh, x, w),
                      ![ms[i]].bbox = <<x, y, hh, w>>]
         IN  bbox_loop(h2, ms, img, i + 1, Append(imgs, processed_image))

bbox_masks(h, ms, img) == bbox_loop(h, ms, img, 1, <<>>)

(* ----------------------- utilsSAM.post_processing ---------------------- *)

\* Lines 89-94: a uint8 image becomes a float32 numpy array of value / 255.
\* Entries stay integers; scale records the unit 1/scale they are in.
ToFloatImage(img) ==
    IF img.dtype = "uint8"
    THEN [img EXCEPT !.lib = "numpy", !.dtype = "float32",
                     !.scale = img.scale * 255]
    ELSE img

\* image.transpose(1, 2, 0)
Transpose120(img) ==
    LET shape == <<img.shape[2], img.shape[3], img.shape[1]>>
    IN  [img EXCEPT
           !.shape = shape,
           !.at = [p \in Idx3(shape) |-> img.at[<<p[3], p[1], p[2]>>]]]

\* Lines 96-97.
ChannelsLast(img) == IF img.shape[1] = 3 THEN Transpose120(img) ELSE img

\* Line 118: torch.tensor(image).permute((2, 0, 1))
Permute201(img) ==
    LET shape == <<img.shape[3], img.shape[1], img.shape[2]>>
    IN  [img EXCEPT
           !.lib = "torch",
           !.shape = shape,
           !.at = [p \in Idx3(shape) |-> img.at[<<p[2], p[3], p[1]>>]]]

\* copy.deepcopy(ms): the heap extended with a copy of every dict of ms.
DeepcopyHeap(h, ms) == h \o [k \in 1..Len(ms) |-> h[ms[k]]]

\* copy.deepcopy(ms): the list of the references of the copies.
DeepcopyList(h, ms) == [k \in 1..Len(ms) |-> Len(h) + k]

\* Mutant of MasksCopy: the caller's own dict objects, not copies.
MasksAlias(h, ms) == ms

\* Line 99: masks_copy = copy.deepcopy(masks)
MasksCopy(h, ms) == DeepcopyList(h, ms)

Methods ==
    {"blurred_masks", "red_circle_masks", "bbox_masks",
     "black_background_masks", "none"}

\* post_processing(ms, img, method), lines 89-120. The second dtype test
\* (lines 114-117) never holds, the image being float32 by then. ext holds
\* what the cv2 calls returned: ext.blurred for GaussianBlur, ext.rasters
\* for ellipse. The result is [raised, images, masks_copy, heap].
post_processing(h, ms, img, method, ext) ==
    LET img2 == ChannelsLast(ToFloatImage(img))
        h1 == DeepcopyHeap(h, ms)
        copy == MasksCopy(h, ms)
        boxed == bbox_masks(h1, copy, img2)
        imgs == CASE method = "blurred_masks" ->
                       blurred_masks(h1, copy, img2, ext.blurred)
                  [] method = "red_circle_masks" ->
                       red_circle_masks(h1, copy, img2, ext.rasters)
                  [] method = "bbox_masks" -> boxed[1]
                  [] method = "black_background_masks" ->
                       black_background_masks(h1, copy, img2)
                  [] OTHER -> [i \in 1..Len(ms) |-> img2]
        h3 == IF method = "bbox_masks" THEN boxed[2] ELSE h1
    IN  IF method \notin Methods
        THEN [raised |-> TRUE, images |-> <<>>, masks_copy |-> <<>>,
              heap |-> h1]
        ELSE [raised |-> FALSE,
              images |-> [i \in 1..Len(imgs) |-> Permute201(imgs[i])],
              masks_copy |-> copy,
              heap |-> h3]

(* ------------------------- Evaluator.__init__ -------------------------- *)

\* ADE20K_SEM_SEG_FULL_CATEGORIES, cut to three categories. A name is the
\* list of its tokens; the token ", " separates the keys of a category.
ADE20K_CATEGORIES ==
    << [name |-> <<"wall">>, trainId |-> 0],
       [name |-> <<"building", ", ", "edifice">>, trainId |-> 1],
       [name |-> <<"sky">>, trainId |-> 2] >>

\* category["name"].split(", ")
SplitCommaSpace(name) == SelectSeq(name, LAMBDA t : t # ", ")

\* dict[key] = value
DictSet(d, key, value) ==
    [k \in (DOMAIN d) \cup {key} |-> IF k = key THEN value ELSE d[k]]

\* Lines 73-75: the keys of one category from index k on.
RECURSIVE add_keys(_, _, _, _)
add_keys(voc, keys, trainId, k) ==
    IF k > Len(keys) THEN voc
    ELSE add_keys(IF keys[k] \notin DOMAIN voc
                  THEN DictSet(voc, keys[k], trainId) ELSE voc,
                  keys, trainId, k + 1)

\* Lines 64-75 from category i on: [ade_voc, new_label_idx]
RECURSIVE init_vocabulary(_, _, _, _)
init_vocabulary(categories, i, voc, idx) ==
    IF i > Len(categories) THEN [ade_voc |-> voc, new_label_idx |-> idx]
    ELSE init_vocabulary(categories, i + 1,
                         add_keys(voc, SplitCommaSpace(categories[i].name),
                                  categories[i].trainId, 1),
                         idx + 1)

\* The state of ade_voc and new_label_idx when __init__ returns.
Constructed == init_vocabulary(ADE20K_CATEGORIES, 1, <<>>, 0)

(* ------------------------ Evaluator.add_labels ------------------------- *)

\* Lines 164-167 from text k on: [ade_voc, new_label_idx]
RECURSIVE register_texts(_, _, _, _)
register_texts(voc, idx, texts, k) ==
    IF k > Len(texts) THEN [ade_voc |-> voc, new_label_idx |-> idx]
    ELSE IF texts[k] \notin DOMAIN voc
         THEN register_texts(DictSet(voc, texts[k], idx), idx + 1, texts, k + 1)
         ELSE register_texts(voc, idx, texts, k + 1)

\* Mutant of WriteLabel: a pixel that already holds a label keeps it.
WriteLabelIfUnset(map, segmentation, value) ==
    [map EXCEPT
       !.at = [p \in DOMAIN map.at |->
                 IF segmentation.at[<<p[2], p[3]>>] /\ map.at[p] = 0
                 THEN value ELSE map.at[p]]]

\* Line 175: semseg[:, mask['segmentation']] = value
WriteLabel(map, segmentation, value) ==
    [map EXCEPT
       !.at = [p \in DOMAIN map.at |->
                 IF segmentation.at[<<p[2], p[3]>>]
                 THEN value ELSE map.at[p]]]

\* Lines 174-175 from pair k of zip(text_predictions, masks) on.
RECURSIVE write_labels(_, _, _, _, _, _)
write_labels(h, voc, texts, ms, k, map) ==
    IF k > Min(Len(texts), Len(ms)) THEN map
    ELSE write_labels(h, voc, texts, ms, k + 1,
                      WriteLabel(map, h[ms[k]].segmentation, voc[texts[k]]))

\* Lines 169-171: torch.zeros((1, shape[1], shape[2]), dtype=torch.int32)
ZeroMap(img) ==
    LET shape == <<1, img.shape[2], img.shape[3]>>
    IN  [dtype |-> "int32", shape |-> shape,
         at |-> [p \in Idx3(shape) |-> 0]]

\* add_labels(image, texts, ms): [ade_voc, new_label_idx, semseg]
add_labels(voc, idx, h, img, texts, ms) ==
    LET reg == register_texts(voc, idx, texts, 1)
    IN  [ade_voc |-> reg.ade_voc,
         new_label_idx |-> reg.new_label_idx,
         semseg |-> write_labels(h, reg.ade_voc, texts, ms, 1, ZeroMap(img))]

\* The variables of filter_masks while it is not being called.
NoFilterState ==
    /\ predictions = None
    /\ masks_to_keep = <<>>
    /\ preds_to_keep = <<>>

\* The variables of add_labels before an Evaluator exists.
NoLabelState ==
    /\ ade_voc = <<>>
    /\ new_label_idx = 0
    /\ text_predictions = <<>>
    /\ semseg = None

\* The variables of Evaluator.eval while it is not running.
NoEvalState ==
    /\ save_results = None
    /\ evaluator = FALSE
    /\ batch_index = 0
    /\ vocabulary = <<>>
    /\ logits = None
    /\ saved = {}
    /\ process_call = None

\* The variables of post_processing while no image is being processed.
NoPostState ==
    /\ image = None
    /\ original_masks = <<>>
    /\ post_process = None
    /\ images = <<>>
    /\ masks_copy = <<>>

(* --------------------- runs of filter_masks alone ---------------------- *)

\* filter_masks(masks) as Evaluator.eval calls it: predictions is None.
InitFilter ==
    /\ pc = "filter_masks"
    /\ \E n \in 0..MaxMasks :
         /\ masks = RefList(n)
         /\ heap \in [1..n -> {BBoxDict(b) : b \in BBoxes}]
    /\ predictions = None
    /\ masks_to_keep = <<>>
    /\ preds_to_keep = <<>>
    /\ NoPostState
    /\ NoLabelState
    /\ NoEvalState

\* filter_masks(masks, predictions) with a list of predictions or None.
InitFilterPreds ==
    /\ pc = "filter_masks"
    /\ \E n \in 0..MaxMasks :
         /\ masks = RefList(n)
         /\ heap \in [1..n -> {BBoxDict(b) : b \in RowBBoxes}]
         /\ predictions \in {None} \cup {Some(p) : p \in [1..n -> 0..MaxPred]}
    /\ masks_to_keep = <<>>
    /\ preds_to_keep = <<>>
    /\ NoPostState
    /\ NoLabelState
    /\ NoEvalState

CallFilterMasks ==
    /\ pc = "filter_masks"
    /\ LET r == filter_masks(heap, masks, predictions)
       IN  /\ masks_to_keep' = r[1]
           /\ preds_to_keep' = r[2]
    /\ pc' = "returned"
    /\ UNCHANGED <<heap, masks, predictions, postVars, labelVars, evalVars>>

SpecFilter == InitFilter /\ [][CallFilterMasks]_vars

SpecFilterPreds == InitFilterPreds /\ [][CallFilterMasks]_vars

(* ------------------------ claims on filter_masks ----------------------- *)

Range(s) == {s[k] : k \in 1..Len(s)}

\* Input index i is nested in another input mask, by bbox.
NestedInAnother(i) ==
    \E j \in 1..Len(masks) :
        j # i /\ is_contained(heap[masks[i]].bbox, heap[masks[j]].bbox)

\* C1: after filter_masks returns, every input mask is either returned in
\* masks_to_keep or has its bbox contained (is_contained) in the bbox of some
\* returned mask; a non-empty input never yields an empty output.
C1_LargestOfEachGroupKept ==
    pc = "returned" =>
        /\ \A i \in 1..Len(masks) :
              \/ masks[i] \in Range(masks_to_keep)
              \/ \E k \in 1..Len(masks_to_keep) :
                    is_contained(heap[masks[i]].bbox,
                                 heap[masks_to_keep[k]].bbox)
        /\ (masks # <<>> => masks_to_keep # <<>>)

Increasing(n, m) ==
    {f \in [1..n -> 1..m] : \A a, b \in 1..n : a < b => f[a] < f[b]}

\* C3: masks_to_keep is a subsequence of the input list in its original
\* order, preds_to_keep has the same length, and preds_to_keep[k] is the
\* prediction of the input index of masks_to_keep[k] (None for every entry
\* when predictions is None).
C3_SubsequenceWithAlignedPreds ==
    pc = "returned" =>
        /\ Len(preds_to_keep) = Len(masks_to_keep)
        /\ \E idx \in Increasing(Len(masks_to_keep), Len(masks)) :
              \A k \in 1..Len(masks_to_keep) :
                 /\ masks_to_keep[k] = masks[idx[k]]
                 /\ preds_to_keep[k] =
                       IF predictions = None THEN None
                       ELSE Some(predictions[1][idx[k]])

\* C3 witness: predictions were given, a dropped mask precedes a kept one
\* whose prediction differs from the dropped one's.
C3_Witness ==
    /\ pc = "returned"
    /\ predictions # None
    /\ \E i, j \in 1..Len(masks) :
          /\ i < j
          /\ masks[i] \notin Range(masks_to_keep)
          /\ masks[j] \in Range(masks_to_keep)
          /\ predictions[1][i] # predictions[1][j]

(* ------------- runs of eval lines 90-92: post_processing --------------- *)

\* The boolean array of an image of height hh and width ww that is True
\* exactly inside bbox.
FilledBBox(hh, ww, bbox) ==
    [shape |-> <<hh, ww>>,
     at |-> [p \in Idx2(<<hh, ww>>) |->
               /\ bbox[1] <= p[2] /\ p[2] < bbox[1] + bbox[3]
               /\ bbox[2] <= p[1] /\ p[1] < bbox[2] + bbox[4]]]

\* The non-empty bboxes [x, y, w, h] inside an image.
BBoxesIn(hh, ww) ==
    {b \in (0..(ww - 1)) \X (0..(hh - 1)) \X (1..ww) \X (1..hh) :
        b[1] + b[3] <= ww /\ b[2] + b[4] <= hh}

\* The mask dicts SAM may return for an image: a bbox and the segmentation
\* that fills it.
MaskDictsIn(hh, ww) ==
    {[bbox |-> b, segmentation |-> FilledBBox(hh, ww, b)] :
        b \in BBoxesIn(hh, ww)}

\* batch['image'].squeeze(0): a uint8 torch tensor (3, height, width);
\* its entries vary with the channel, the row and the column.
BatchImage(hh, ww, base) ==
    [lib |-> "torch", dtype |-> "uint8", scale |-> 1,
     shape |-> <<3, hh, ww>>,
     at |-> [p \in Idx3(<<3, hh, ww>>) |->
               (base + 64 * p[1] + 16 * p[2] + p[3]) % 256]]

BatchImages(hh, ww) == {BatchImage(hh, ww, base) : base \in {7, 130}}

\* What cv2.GaussianBlur may return for img: an array of the same shape
\* and type (here: img itself, or img with every entry moved).
GaussianBlurResults(img) ==
    {img,
     [img EXCEPT !.at = [p \in DOMAIN img.at |-> (img.at[p] + 37) % 256]]}

\* What cv2.ellipse may colour on an image: nothing of it, or all of it.
EllipseRasters(img) == {{}, Idx2(<<img.shape[1], img.shape[2]>>)}

\* What the cv2 calls of one post_processing(ms, img, method) call return:
\* GaussianBlur is called by blurred_masks only, ellipse by
\* red_circle_masks only, once for every mask.
Cv2Results(ms, img, method) ==
    LET img2 == ChannelsLast(ToFloatImage(img))
    IN  [blurred : IF method = "blurred_masks"
                   THEN GaussianBlurResults(img2) ELSE {None},
         rasters : IF method = "red_circle_masks"
                   THEN [1..Len(ms) -> EllipseRasters(img2)] ELSE {None}]

InitPost ==
    /\ pc = "deepcopy"
    /\ \E n \in 0..MaxPostMasks :
         /\ masks = RefList(n)
         /\ heap \in [1..n -> MaskDictsIn(ImgH, ImgW)]
    /\ image \in BatchImages(ImgH, ImgW)
    /\ original_masks = <<>>
    /\ post_process = None
    /\ images = <<>>
    /\ masks_copy = <<>>
    /\ NoFilterState
    /\ NoLabelState
    /\ NoEvalState

\* sam_pipeline.py line 90: original_masks = copy.deepcopy(masks)
CopyOriginalMasks ==
    /\ pc = "deepcopy"
    /\ original_masks' = DeepcopyList(heap, masks)
    /\ heap' = DeepcopyHeap(heap, masks)
    /\ pc' = "post_processing"
    /\ UNCHANGED <<masks, filterVars, image, post_process, images, masks_copy,
                   labelVars, evalVars>>

\* sam_pipeline.py line 92 with self.post_process = method.
PostProcessing(method) ==
    /\ pc = "post_processing"
    /\ \E ext \in Cv2Results(masks, image, method) :
         LET r == post_processing(heap, masks, image, method, ext)
         IN  /\ heap' = r.heap
             /\ images' = r.images
             /\ masks_copy' = r.masks_copy
             /\ pc' = IF r.raised THEN "post_raised" ELSE "post_returned"
    /\ post_process' = method
    /\ UNCHANGED <<masks, filterVars, image, original_masks, labelVars,
                   evalVars>>

PostBlurred == PostProcessing("blurred_masks")

PostRedCircle == PostProcessing("red_circle_masks")

PostBBox == PostProcessing("bbox_masks")

PostBlackBackground == PostProcessing("black_background_masks")

PostNone == PostProcessing("none")

\* Any other method name: post_processing raises ValueError.
PostInvalid == PostProcessing("invalid")

NextPost ==
    \/ CopyOriginalMasks
    \/ PostBlurred
    \/ PostRedCircle
    \/ PostBBox
    \/ PostBlackBackground
    \/ PostNone
    \/ PostInvalid

SpecPost == InitPost /\ [][NextPost]_vars

(* ---------------------- claims on post_processing ---------------------- *)

\* C5: after post_processing returns, for every method, the caller's mask
\* list has the same length and every mask has the same 'segmentation'
\* (shape and values) and 'bbox' as before the call (as the deep copy taken
\* before the call recorded them).
C5_CallerMasksIntact ==
    pc = "post_returned" =>
        /\ Len(masks) = Len(original_masks)
        /\ \A k \in 1..Len(masks) :
              /\ heap[masks[k]].segmentation
                   = heap[original_masks[k]].segmentation
              /\ heap[masks[k]].bbox = heap[original_masks[k]].bbox

\* C5 witness: bbox_masks returned and it cropped or re-boxed a mask of the
\* returned copy.
C5_Witness ==
    /\ pc = "post_returned"
    /\ post_process = "bbox_masks"
    /\ \E k \in 1..Len(masks) :
          /\ heap[masks_copy[k]].bbox # heap[original_masks[k]].bbox
          /\ heap[masks_copy[k]].segmentation.shape
               # heap[original_masks[k]].segmentation.shape

\* The entry of returned image i (channels first) at channel ch, row r,
\* column c equals the entry of the batch image there, as a fraction of 255.
SameAsOriginal(i, ch, r, c) ==
    images[i].at[<<ch, r, c>>] * 255 = image.at[<<ch, r, c>>] * images[i].scale

\* C6: every output image of blurred_masks and of black_background_masks
\* equals the original image at every pixel whose mask value is 1, and
\* those of black_background_masks are 0 in every channel at every pixel
\* whose mask value is 0.
C6_OnlyMaskedOutPixelsChange ==
    (pc = "post_returned"
       /\ post_process \in {"blurred_masks", "black_background_masks"}) =>
        \A i \in 1..Len(masks) :
           \A p \in Idx3(image.shape) :
              LET inside == heap[masks[i]].segmentation.at[<<p[2], p[3]>>]
              IN  /\ inside => SameAsOriginal(i, p[1], p[2], p[3])
                  /\ (~inside /\ post_process = "black_background_masks")
                        => images[i].at[p] = 0

\* C6 witness: blurred_masks returned an image with a pixel inside the mask
\* and a pixel outside it that the blur changed.
C6_Witness ==
    /\ pc = "post_returned"
    /\ post_process = "blurred_masks"
    /\ \E i \in 1..Len(masks) :
          \E p, q \in Idx3(image.shape) :
             /\ heap[masks[i]].segmentation.at[<<p[2], p[3]>>]
             /\ ~heap[masks[i]].segmentation.at[<<q[2], q[3]>>]
             /\ ~SameAsOriginal(i, q[1], q[2], q[3])

(* ------------------------- runs of add_labels -------------------------- *)

\* The texts a classification may predict: two keys of ade_voc and two
\* texts that are not in it.
Texts == {"wall", "edifice", "cat", "dog"}

InitLabels ==
    /\ pc = "add_labels"
    /\ \E n \in 0..MaxMasks :
         /\ masks = RefList(n)
         /\ heap \in [1..n -> MaskDictsIn(MapH, MapW)]
    /\ image = BatchImage(MapH, MapW, 7)
    /\ ade_voc = Constructed.ade_voc
    /\ new_label_idx = Constructed.new_label_idx
    /\ text_predictions = <<>>
    /\ semseg = None
    /\ original_masks = <<>>
    /\ post_process = None
    /\ images = <<>>
    /\ masks_copy = <<>>
    /\ NoFilterState
    /\ NoEvalState

\* self.add_labels(image, texts, masks) with one text for every mask.
CallAddLabels ==
    /\ pc = "add_labels"
    /\ \E texts \in [1..Len(masks) -> Texts] :
         LET r == add_labels(ade_voc, new_label_idx, heap, image, texts, masks)
         IN  /\ text_predictions' = texts
             /\ ade_voc' = r.ade_voc
             /\ new_label_idx' = r.new_label_idx
             /\ semseg' = Some(r.semseg)
    /\ pc' = "labelled"
    /\ UNCHANGED <<heap, masks, filterVars, postVars, evalVars>>

SpecLabels == InitLabels /\ [][CallAddLabels]_vars

(* ------------------------- claims on add_labels ------------------------ *)

\* The indices of the masks whose segmentation covers row r, column c.
Covering(r, c) ==
    {k \in 1..Len(masks) : heap[masks[k]].segmentation.at[<<r, c>>]}

SetMax(S) == CHOOSE m \in S : \A k \in S : k <= m

\* C7: in the map add_labels returns, every pixel that no mask covers is 0
\* and every covered pixel holds ade_voc[text] of the last mask in list
\* order whose segmentation covers it.
C7_LastCoveringMaskLabels ==
    pc = "labelled" =>
        \A p \in Idx3(semseg[1].shape) :
           IF Covering(p[2], p[3]) = {}
           THEN semseg[1].at[p] = 0
           ELSE semseg[1].at[p]
                  = ade_voc[text_predictions[SetMax(Covering(p[2], p[3]))]]

\* C7 witness: a pixel covered by two masks with different labels, the
\* earlier one not 0, and a pixel that no mask covers.
C7_Witness ==
    /\ pc = "labelled"
    /\ \E p, q \in Idx3(semseg[1].shape) :
          /\ Covering(q[2], q[3]) = {}
          /\ \E j, k \in Covering(p[2], p[3]) :
                /\ j < k
                /\ ade_voc[text_predictions[j]] # 0
                /\ ade_voc[text_predictions[j]] # ade_voc[text_predictions[k]]

(* --------------------------- Evaluator.eval ---------------------------- *)

\* batch['vocabulary'] of a batch of size one: a list of 1-tuples of texts.
Vocabularies ==
    { << <<"wall">>, <<"cat">> >>, << <<"dog">>, <<"edifice">> >> }

\* The scores clip.classify may give a text.
Scores == {0, 1}

\* torch.argmax(row): the 0-based index of the first maximal value.
ArgMax(row) ==
    (CHOOSE k \in 1..Len(row) :
        /\ \A j \in 1..Len(row) : row[j] <= row[k]
        /\ \A j \in 1..(k - 1) : row[j] < row[k]) - 1

\* Lines 95-96: the text of the best score of every row of the logits.
TextPredictions(lg, voc) ==
    [k \in 1..Len(lg) |-> voc[ArgMax(lg[k]) + 1][1]]

\* utilsSAM.recompose_image, line 291: recomposed_image[segmentation] =
\* color raises IndexError unless the boolean index has the height and the
\* width of the image.
RecomposeRaises(h, ms, img) ==
    \E k \in 1..Len(ms) :
        h[ms[k]].segmentation.shape # <<img.shape[2], img.shape[3]>>

\* The state when Evaluator.__init__ has returned and eval is called.
\* __init__ assigns save_predictions and never save_results (line 60), so
\* eval finds self.save_results only if the caller assigned it.
Init ==
    /\ pc = "loop"
    /\ heap = <<>>
    /\ masks = <<>>
    /\ NoFilterState
    /\ image = None
    /\ original_masks = <<>>
    /\ post_process \in Methods \cup {"invalid"}
    /\ images = <<>>
    /\ masks_copy = <<>>
    /\ ade_voc = Constructed.ade_voc
    /\ new_label_idx = Constructed.new_label_idx
    /\ text_predictions = <<>>
    /\ semseg = None
    /\ save_results \in {None, Some(FALSE), Some(TRUE)}
    /\ evaluator \in BOOLEAN
    /\ batch_index = 0
    /\ vocabulary = <<>>
    /\ logits = None
    /\ saved = {}
    /\ process_call = None

\* Lines 82-87: the next batch of the loader and the masks SAM predicts for
\* its image. The values the last iteration left in the locals are dead and
\* are dropped here, with the dicts only they referred to.
EvalNextBatch ==
    /\ pc = "loop"
    /\ batch_index < NumBatches
    /\ image' = BatchImage(MapH, MapW, 7)
    /\ vocabulary' \in Vocabularies
    /\ \E n \in 0..MaxMasks :
         /\ masks' = RefList(n)
         /\ heap' \in [1..n -> MaskDictsIn(MapH, MapW)]
    /\ original_masks' = <<>>
    /\ images' = <<>>
    /\ masks_copy' = <<>>
    /\ text_predictions' = <<>>
    /\ semseg' = None
    /\ logits' = None
    /\ process_call' = None
    /\ pc' = "filter_masks"
    /\ UNCHANGED <<filterVars, post_process, ade_voc, new_label_idx,
                   save_results, evaluator, batch_index, saved>>

\* Line 82: the loader is exhausted and eval returns.
EvalReturn ==
    /\ pc = "loop"
    /\ batch_index = NumBatches
    /\ pc' = "done"
    /\ UNCHANGED <<heap, masks, filterVars, postVars, labelVars, evalVars>>

\* Line 88: masks, _ = filter_masks(masks)
EvalFilterMasks ==
    /\ pc = "filter_masks"
    /\ LET r == filter_masks(heap, masks, None)
       IN  /\ masks' = r[1]
           /\ masks_to_keep' = r[1]
           /\ preds_to_keep' = r[2]
    /\ pc' = "deepcopy"
    /\ UNCHANGED <<heap, predictions, postVars, labelVars, evalVars>>

\* Line 92: images, masks = post_processing(masks, image, self.post_process)
EvalPostProcessing ==
    /\ pc = "post_processing"
    /\ \E ext \in Cv2Results(masks, image, post_process) :
         LET r == post_processing(heap, masks, image, post_process, ext)
         IN  /\ heap' = r.heap
             /\ images' = r.images
             /\ masks_copy' = r.masks_copy
             /\ masks' = IF r.raised THEN masks ELSE r.masks_copy
             /\ pc' = IF r.raised THEN "raised" ELSE "classify"
    /\ UNCHANGED <<filterVars, image, original_masks, post_process, labelVars,
                   evalVars>>

\* Lines 94-96: clip.classify returns one row of scores for every image;
\* the predicted text of a row is the text of its best score.
EvalClassify ==
    /\ pc = "classify"
    /\ \E lg \in [1..Len(images) -> [1..Len(vocabulary) -> Scores]] :
         /\ logits' = Some(lg)
         /\ text_predictions' = TextPredictions(lg, vocabulary)
    /\ pc' = "add_labels"
    /\ UNCHANGED <<heap, masks, filterVars, postVars, ade_voc, new_label_idx,
                   semseg, save_results, evaluator, batch_index, vocabulary,
                   saved, process_call>>

\* Line 97: semseg = self.add_labels(image, text_predictions, original_masks)
EvalAddLabels ==
    /\ pc = "add_labels"
    /\ LET r == add_labels(ade_voc, new_label_idx, heap, image,
                           text_predictions, original_masks)
       IN  /\ ade_voc' = r.ade_voc
           /\ new_label_idx' = r.new_label_idx
           /\ semseg' = Some(r.semseg)
    /\ pc' = "save_results"
    /\ UNCHANGED <<heap, masks, filterVars, postVars, text_predictions,
                   evalVars>>

\* Lines 99-101: reading self.save_results raises AttributeError when the
\* attribute is missing; when it is true the overlay is recomposed from the
\* post-processed masks and written to {out_path}/{i}.png.
EvalSaveResults ==
    /\ pc = "save_results"
    /\ IF save_results = None
       THEN pc' = "raised" /\ saved' = saved
       ELSE IF save_results[1]
            THEN IF RecomposeRaises(heap, masks, image)
                 THEN pc' = "raised" /\ saved' = saved
                 ELSE pc' = "process" /\ saved' = saved \cup {batch_index}
            ELSE pc' = "process" /\ saved' = saved
    /\ UNCHANGED <<heap, masks, filterVars, postVars, labelVars, save_results,
                   evaluator, batch_index, vocabulary, logits, process_call>>

\* Lines 103-105: output = [{'sem_seg': logits}] goes to evaluator.process
\* when there is an evaluator; then the loop goes on with the next index.
EvalProcess ==
    /\ pc = "process"
    /\ LET output == << [sem_seg |-> logits[1]] >>
       IN  process_call' =
             IF evaluator
             THEN Some([inputs |-> batch_index, outputs |-> output])
             ELSE None
    /\ batch_index' = batch_index + 1
    /\ pc' = "loop"
    /\ UNCHANGED <<heap, masks, filterVars, postVars, labelVars, save_results,
                   evaluator, vocabulary, logits, saved>>

Next ==
    \/ EvalNextBatch
    \/ EvalReturn
    \/ EvalFilterMasks
    \/ CopyOriginalMasks
    \/ EvalPostProcessing
    \/ EvalClassify
    \/ EvalAddLabels
    \/ EvalSaveResults
    \/ EvalProcess

Spec == Init /\ [][Next]_vars

(* --------------------------- claims on eval ---------------------------- *)

\* An iteration of eval has assembled its label map and has ended: the
\* loop went on to the next index, or the iteration raised.
IterationEndedWithLabelMap ==
    /\ pc \in {"loop", "raised"}
    /\ semseg # None

\* C4: in every iteration of eval with an evaluator that is not None, the
\* label map add_labels assembled from the batch's predictions and masks is
\* the output handed to evaluator.process.
C4_LabelMapIsScored ==
    (evaluator /\ IterationEndedWithLabelMap) =>
        /\ process_call # None
        /\ process_call[1].outputs = << [sem_seg |-> semseg[1]] >>

====
